---- MODULE Spec2Model ----
(***************************************************************************)
(* The multi-turn tool-calling conversation loop of the bot library:       *)
(* processStream and streamQuery (library.ts) and ToolScheduler            *)
(* (tool-scheduler.ts).                                                    *)
(*                                                                         *)
(* Texts are sequences of string tokens: the template literal              *)
(* `[ERROR] Tool '${name}' failed: ${msg}` is                              *)
(* <<"[ERROR] Tool '", name, "' failed: ", msg>>, so that a prefix of a    *)
(* text and the values substituted into it can be inspected.               *)
(***************************************************************************)
EXTENDS Integers, Sequences, FiniteSets, TLC

VARIABLES
    caller,            \* who runs the code: "streamQuery" (the loop) or "test" (execute called directly)
    hasClient,         \* config.getGeminiClient() returns a client
    prompt,            \* streamQuery's prompt argument
    pc,                \* position of the running async function
    currentPrompt,     \* streamQuery: let currentPrompt
    prompt_id,         \* streamQuery: const prompt_id of the running turn
    sendCalls,         \* the inputs sendMessageStream was called with, in call order
    streams,           \* per turn, the events the producer's stream has yielded so far
    toolCallRequests,  \* processStream: const toolCallRequests, then streamQuery's
    messages,          \* the messages delivered to the callback, in order
    requests,          \* execute: the requests argument
    results,           \* execute: const results
    inflight,          \* execute: indices of requests begun whose result is not yet produced
    attempts,          \* log: the requests execute began to process, in order
    outcomes,          \* log: for each processed request, whether its tool failed; for the latest, the provider's outcome
    controllers        \* the AbortControllers created so far: aborted or not, and the calls their signal was passed to

vars == <<caller, hasClient, prompt, pc, currentPrompt, prompt_id, sendCalls, streams,
          toolCallRequests, messages, requests, results, inflight, attempts, outcomes,
          controllers>>

loopVars == <<hasClient, prompt, currentPrompt, prompt_id, sendCalls, streams,
              toolCallRequests, messages, controllers>>

execVars == <<requests, results, inflight, attempts, outcomes>>

(***************************************************************************)
(* Bounds of the model.                                                    *)
(***************************************************************************)
\* sendMessageStream calls in one conversation
MaxTurns == 2
\* events the producer yields in one conversation, over all its streams
MaxEvents == 3
\* requests in the list a direct caller hands to execute
MaxRequests == 2

(***************************************************************************)
(* Values.                                                                 *)
(***************************************************************************)
CallIds == {"123", "456"}

SwitchNames == {"run_shell_command", "read_many_files", "read_file", "write_file", "replace"}

\* a name execute's switch has no case for
OtherName == "frobnicate"

ToolNames == SwitchNames \cup {OtherName}

ArgsOf(name) ==
    IF name = "run_shell_command" THEN {[command |-> "ls"], [command |-> ""]}
    ELSE {[path |-> "foo.txt"]}

AllRequests == UNION {{[callId |-> c, name |-> n, args |-> a] : c \in CallIds, a \in ArgsOf(n)} : n \in ToolNames}

\* the requests the producer of the conversation loop emits
StreamRequests == {r \in AllRequests : r.name \in {"run_shell_command", "read_file", OtherName}
                                        /\ r.args # [command |-> ""]}

\* the prompt argument, a PartListUnion: the text 'initial prompt'
InitialPrompt == <<[text |-> "initial prompt"]>>
SessionId == "session-id"
ProducerError == "connection lost"

(***************************************************************************)
(* ToolScheduler (tool-scheduler.ts).                                      *)
(*                                                                         *)
(* A helper of execute either returns a text or throws:                    *)
(*   [threw |-> FALSE, text |-> t]   or   [threw |-> TRUE, message |-> m]  *)
(***************************************************************************)
Return(text) == [threw |-> FALSE, text |-> text]
Throw(message) == [threw |-> TRUE, message |-> message]

ToolError == "boom"

\* llmContent of a tool result: absent, a string, or an array of parts
Contents == {[kind |-> "undefined"],
             [kind |-> "string", text |-> <<>>],
             [kind |-> "string", text |-> <<"file content">>],
             [kind |-> "array", parts |-> <<"a", "b">>]}

\* what the tool registry and the tool it returns do for one request
RegistryOutcomes ==
    {[kind |-> "registry_throws", message |-> ToolError],
     [kind |-> "not_found"],
     [kind |-> "build_throws", message |-> ToolError],
     [kind |-> "execute_throws", message |-> ToolError]}
    \cup {[kind |-> "ok", llmContent |-> c] : c \in Contents}

Outputs == {<<>>, <<"hello world", "\n">>}

\* what ShellExecutionService does for one command
ShellOutcomes ==
    {[kind |-> "service_throws", message |-> ToolError]}
    \cup {[kind |-> "executionResult", error |-> e, aborted |-> a, signal |-> s,
           exitCode |-> x, binary |-> b, output |-> out] :
            e \in {"null", "spawn failed"}, a \in BOOLEAN, s \in {"null", "SIGTERM"},
            x \in {0, 2}, b \in BOOLEAN, out \in Outputs}

\* the request never reaches the tool provider
NoOutcome == [kind |-> "none"]

AllOutcomes(request) ==
    IF request.name = "run_shell_command"
    THEN IF request.args.command = "" THEN {NoOutcome} ELSE ShellOutcomes
    ELSE IF request.name \in SwitchNames THEN RegistryOutcomes
    ELSE {NoOutcome}

\* the provider behaviours explored inside the conversation loop: per tool
\* one success and one failure (run_shell_command: the service throws, which
\* execute catches; read_file: the invocation throws, which readFile catches)
LoopOutcomes(request) ==
    {o \in AllOutcomes(request) :
        \/ o.kind \in {"none", "service_throws", "execute_throws"}
        \/ o.kind = "ok" /\ o.llmContent = [kind |-> "string", text |-> <<"file content">>]
        \/ /\ o.kind = "executionResult"
           /\ o.error = "null" /\ ~o.aborted /\ o.signal = "null" /\ ~o.binary
           /\ o.output = <<"hello world", "\n">>}

\* the request reached invocation.execute / ShellExecutionService.execute
Invoked(o) == o.kind \in {"execute_throws", "ok", "executionResult"}

\* the request failed: resolving, building or executing its tool threw
Failed(o) == o.kind \in {"registry_throws", "build_throws", "execute_throws", "service_throws"}

RECURSIVE JoinWith(_, _)
JoinWith(parts, sep) ==
    IF Len(parts) = 0 THEN <<>>
    ELSE IF Len(parts) = 1 THEN <<parts[1]>>
    ELSE <<parts[1], sep>> \o JoinWith(Tail(parts), sep)

\* llmContent?.toString() || ''
ContentToString(c) ==
    IF c.kind = "undefined" THEN <<>>
    ELSE IF c.kind = "string" THEN c.text
    ELSE JoinWith(c.parts, ",")

IsSpace(tok) == tok \in {" ", "\n", "\t"}

RECURSIVE TrimStart(_)
TrimStart(t) == IF Len(t) > 0 /\ IsSpace(t[1]) THEN TrimStart(Tail(t)) ELSE t

RECURSIVE TrimEnd(_)
TrimEnd(t) == IF Len(t) > 0 /\ IsSpace(t[Len(t)]) THEN TrimEnd(SubSeq(t, 1, Len(t) - 1)) ELSE t

Trim(t) == TrimEnd(TrimStart(t))

\* mutant of registryTool: build and execute are outside the helper's try
registryTool_NoInnerCatch(name, what, o) ==
    IF o.kind \in {"registry_throws", "build_throws", "execute_throws"} THEN Throw(o.message)
    ELSE IF o.kind = "not_found" THEN Return(<<"[ERROR] ", name, " tool not found.">>)
    ELSE Return(ContentToString(o.llmContent))

\* readFile, writeFile, replace: the registry tool named `name`, its catch text `what`
registryTool(name, what, o) ==
    IF o.kind = "registry_throws" THEN Throw(o.message)
    ELSE IF o.kind = "not_found" THEN Return(<<"[ERROR] ", name, " tool not found.">>)
    ELSE IF o.kind \in {"build_throws", "execute_throws"}
         THEN Return(<<"[ERROR] ", what, ": ", o.message>>)
    ELSE Return(ContentToString(o.llmContent))

readFile(o) == registryTool("read_file", "Error reading file", o)

replace(o) == registryTool("replace", "Error replacing content", o)

writeFile(o) == registryTool("write_file", "Error writing file", o)

readManyFiles(o) ==
    IF o.kind = "ok" /\ o.llmContent.kind = "array"
    THEN Return(JoinWith(o.llmContent.parts, "\n"))
    ELSE registryTool("read_many_files", "Error reading files", o)

\* mutant of runShellCommand: the exit code is looked at before error, abort and signal
runShellCommand_ExitCodeFirst(command, o) ==
    IF command = "" THEN Return(<<"[ERROR] No command provided to run_shell_command.">>)
    ELSE IF o.kind = "service_throws" THEN Throw(o.message)
    ELSE IF o.exitCode # 0
         THEN Return(<<"[ERROR] Command exited with code ", ToString(o.exitCode), ".", "\n">> \o o.output)
    ELSE IF o.error # "null" THEN Return(<<"[ERROR] ", o.error, "\n">> \o o.output)
    ELSE IF o.aborted THEN Return(<<"[CANCELLED] Command was cancelled.", "\n">> \o o.output)
    ELSE IF o.signal # "null"
         THEN Return(<<"[ERROR] Command terminated by signal: ", o.signal, ".", "\n">> \o o.output)
    ELSE IF o.binary THEN Return(<<"[Command produced binary output, which is not shown.]">>)
    ELSE IF Trim(o.output) # <<>> THEN Return(Trim(o.output))
    ELSE Return(<<"(Command produced no output)">>)

\* mutant of runShellCommand: no check for binary output
runShellCommand_NoBinaryCheck(command, o) ==
    IF command = "" THEN Return(<<"[ERROR] No command provided to run_shell_command.">>)
    ELSE IF o.kind = "service_throws" THEN Throw(o.message)
    ELSE IF o.error # "null" THEN Return(<<"[ERROR] ", o.error, "\n">> \o o.output)
    ELSE IF o.aborted THEN Return(<<"[CANCELLED] Command was cancelled.", "\n">> \o o.output)
    ELSE IF o.signal # "null"
         THEN Return(<<"[ERROR] Command terminated by signal: ", o.signal, ".", "\n">> \o o.output)
    ELSE IF o.exitCode # 0
         THEN Return(<<"[ERROR] Command exited with code ", ToString(o.exitCode), ".", "\n">> \o o.output)
    ELSE IF Trim(o.output) # <<>> THEN Return(Trim(o.output))
    ELSE Return(<<"(Command produced no output)">>)

runShellCommand(command, o) ==
    IF command = "" THEN Return(<<"[ERROR] No command provided to run_shell_command.">>)
    ELSE IF o.kind = "service_throws" THEN Throw(o.message)
    ELSE IF o.error # "null" THEN Return(<<"[ERROR] ", o.error, "\n">> \o o.output)
    ELSE IF o.aborted THEN Return(<<"[CANCELLED] Command was cancelled.", "\n">> \o o.output)
    ELSE IF o.signal # "null"
         THEN Return(<<"[ERROR] Command terminated by signal: ", o.signal, ".", "\n">> \o o.output)
    ELSE IF o.exitCode # 0
         THEN Return(<<"[ERROR] Command exited with code ", ToString(o.exitCode), ".", "\n">> \o o.output)
    ELSE IF o.binary THEN Return(<<"[Command produced binary output, which is not shown.]">>)
    ELSE IF Trim(o.output) # <<>> THEN Return(Trim(o.output))
    ELSE Return(<<"(Command produced no output)">>)

\* mutant of dispatch: the default case's text does not name the tool
dispatch_DefaultUnnamed(request, o) ==
    IF request.name = "run_shell_command" THEN runShellCommand(request.args.command, o)
    ELSE IF request.name = "read_many_files" THEN readManyFiles(o)
    ELSE IF request.name = "read_file" THEN readFile(o)
    ELSE IF request.name = "write_file" THEN writeFile(o)
    ELSE IF request.name = "replace" THEN replace(o)
    ELSE Return(<<"[ERROR] Tool is not implemented.">>)

\* execute: the switch on request.name
dispatch(request, o) ==
    IF request.name = "run_shell_command" THEN runShellCommand(request.args.command, o)
    ELSE IF request.name = "read_many_files" THEN readManyFiles(o)
    ELSE IF request.name = "read_file" THEN readFile(o)
    ELSE IF request.name = "write_file" THEN writeFile(o)
    ELSE IF request.name = "replace" THEN replace(o)
    ELSE Return(<<"[ERROR] Tool '", request.name, "' is not implemented.">>)

\* mutant of tryDispatch: the switch without its try/catch
tryDispatch_NoCatch(request, o) == dispatch(request, o)

\* execute: try { switch } catch (e) { resultText = ... }
tryDispatch(request, o) ==
    LET r == dispatch(request, o)
    IN  IF r.threw
        THEN Return(<<"[ERROR] Tool '", request.name, "' failed: ", r.message>>)
        ELSE r

\* execute: the ToolResult pushed for one request
ToolResult(request, text) == [callId |-> request.callId, result |-> text]

(***************************************************************************)
(* processStream (library.ts).                                             *)
(***************************************************************************)
NoPayloadTags == {"user_cancelled", "chat_compressed", "loop_detected",
                  "tool_call_confirmation", "tool_call_response", "max_session_turns"}

\* a tag outside ServerGeminiStreamEvent's union
UnknownTag == "retry"

\* the events a producer's stream can yield
ProducerEvents ==
    {[type |-> "thought", value |-> "thinking"],
     [type |-> "content", value |-> "final answer"],
     [type |-> "error", value |-> "api error"],
     [type |-> "finished", value |-> "STOP"],
     [type |-> UnknownTag, value |-> "none"]}
    \cup {[type |-> t, value |-> "none"] : t \in NoPayloadTags}
    \cup {[type |-> "tool_call_request", value |-> r] : r \in StreamRequests}

\* JSON.stringify(value)
JSONstringify(value) == <<"\"", value, "\"">>

\* processStream: the switch on event.type; the messages handed to the callback
classify(event, pid) ==
    IF event.type = "thought" THEN <<[type |-> "thought", thought |-> event.value]>>
    ELSE IF event.type = "content" THEN <<[type |-> "content", content |-> event.value]>>
    ELSE IF event.type = "tool_call_request"
         THEN <<[type |-> "tool_call_request", request |-> event.value]>>
    ELSE IF event.type = "error"
         THEN <<[type |-> "error", error |-> JSONstringify(event.value)]>>
    ELSE IF event.type = "finished"
         THEN <<[type |-> "finished", reason |-> event.value, prompt_id |-> pid]>>
    ELSE IF event.type = "user_cancelled"
         THEN <<[type |-> "info", message |-> <<"Request cancelled by user.">>]>>
    ELSE IF event.type = "chat_compressed"
         THEN <<[type |-> "info", message |-> <<"Chat history was compressed.">>]>>
    ELSE IF event.type = "loop_detected"
         THEN <<[type |-> "error", error |-> <<"Loop detected. Halting execution.">>]>>
    ELSE IF event.type \in {"tool_call_confirmation", "tool_call_response", "max_session_turns"}
         THEN <<>>
    ELSE <<[type |-> "error", error |-> <<"Unknown event type: ", "[object Object]">>]>>

\* mutant of collect: the newest request is put first
collect_Prepend(list, event) ==
    IF event.type = "tool_call_request" THEN <<event.value>> \o list ELSE list

\* processStream: toolCallRequests.push(event.value) for a tool_call_request
collect(list, event) ==
    IF event.type = "tool_call_request" THEN Append(list, event.value) ELSE list

(***************************************************************************)
(* streamQuery (library.ts).                                               *)
(***************************************************************************)
Undefined == [kind |-> "undefined"]

\* a variable of streamQuery before its declaration is reached
Unset == <<>>

\* Math.random(): one representative draw
RandomValues == {"0.25"}

\* events yielded so far in the conversation
RECURSIVE TotalEvents(_)
TotalEvents(ss) == IF ss = <<>> THEN 0 ELSE Len(Head(ss)) + TotalEvents(Tail(ss))

\* mutant of find: the first collected request, whatever its callId
find_First(reqs, callId) == IF reqs = <<>> THEN [kind |-> "undefined"] ELSE Head(reqs)

\* Array.prototype.find on the collected requests, by callId
RECURSIVE find(_, _)
find(reqs, callId) ==
    IF reqs = <<>> THEN Undefined
    ELSE IF Head(reqs).callId = callId THEN Head(reqs)
    ELSE find(Tail(reqs), callId)

\* originalRequest?.name || ''
nameOf(req) == IF req = Undefined THEN "" ELSE req.name

\* mutant of toolResultMessages: the results are not reported to the callback
toolResultMessages_None(reqs, ress) == <<>>

\* mutant of toolResultMessages: the k-th result is paired with the k-th request
toolResultMessages_ByPosition(reqs, ress) ==
    [i \in 1..Len(ress) |-> [type |-> "tool_result", request |-> reqs[i], result |-> ress[i]]]

\* the tool_result messages emitted for the results of a turn
RECURSIVE toolResultMessages(_, _)
toolResultMessages(reqs, ress) ==
    IF ress = <<>> THEN <<>>
    ELSE LET originalRequest == find(reqs, Head(ress).callId)
             rest == toolResultMessages(reqs, Tail(ress))
         IN  IF originalRequest # Undefined
             THEN <<[type |-> "tool_result", request |-> originalRequest, result |-> Head(ress)]>> \o rest
             ELSE rest

\* mutant of functionResponse: the result text is re-encoded as JSON
functionResponse_Stringified(reqs, result) ==
    [functionResponse |->
        [name |-> nameOf(find(reqs, result.callId)),
         response |-> [name |-> nameOf(find(reqs, result.callId)),
                       content |-> JSONstringify(result.result)]]]

\* one function-response payload
functionResponse(reqs, result) ==
    LET originalRequest == find(reqs, result.callId)
    IN  [functionResponse |->
            [name |-> nameOf(originalRequest),
             response |-> [name |-> nameOf(originalRequest), content |-> result.result]]]

\* toolResults.map(...)
toolResponseParts(reqs, ress) == [i \in 1..Len(ress) |-> functionResponse(reqs, ress[i])]

\* mutant of catch: the error is reported and thrown again
catch_Rethrow(emitted, message) ==
    /\ messages' = Append(emitted, [type |-> "error", error |-> <<message>>])
    /\ pc' = "throw"

\* mutant of catch: a finished message follows the error message
catch_WithFinished(emitted, message) ==
    /\ messages' = emitted \o <<[type |-> "error", error |-> <<message>>],
                                [type |-> "finished", reason |-> "STOP", prompt_id |-> prompt_id]>>
    /\ pc' = "catch"

\* catch (error) { callback({ type: 'error', error: getErrorMessage(error) }) },
\* after the messages `emitted` so far
catch(emitted, message) ==
    /\ messages' = Append(emitted, [type |-> "error", error |-> <<message>>])
    /\ pc' = "catch"

\* new AbortController(), its signal passed to one call
NewController(use) == [aborted |-> FALSE, passedTo |-> <<use>>]

\* const abortController = new AbortController() at the top of a turn
turnSignal(ctrls, turn) ==
    Append(ctrls, NewController([call |-> "sendMessageStream", turn |-> turn]))

\* mutant of sendMessageStream: the collected requests are kept from turn to turn
sendMessageStream_KeepRequests(input, emitted) ==
    /\ controllers' = turnSignal(controllers, Len(sendCalls) + 1)
    /\ sendCalls' = Append(sendCalls, input)
    /\ \E r \in RandomValues : prompt_id' = <<SessionId, "########", r>>
    /\ \/ /\ streams' = Append(streams, <<>>)
          /\ messages' = emitted
          /\ pc' = "processStream"
       \/ /\ catch(emitted, ProducerError)
          /\ UNCHANGED streams
    /\ UNCHANGED toolCallRequests

\* the top of the while loop: a new turn is sent to the producer, which
\* returns a stream or fails
sendMessageStream(input, emitted) ==
    /\ controllers' = turnSignal(controllers, Len(sendCalls) + 1)
    /\ sendCalls' = Append(sendCalls, input)
    /\ \E r \in RandomValues : prompt_id' = <<SessionId, "########", r>>
    /\ \/ /\ streams' = Append(streams, <<>>)
          /\ toolCallRequests' = <<>>
          /\ messages' = emitted
          /\ pc' = "processStream"
       \/ /\ catch(emitted, ProducerError)
          /\ UNCHANGED <<streams, toolCallRequests>>

\* streamQuery up to the first await: the client check and the first turn
StartQuery ==
    /\ pc = "start"
    /\ IF ~hasClient
       THEN /\ pc' = "throw"
            /\ UNCHANGED <<currentPrompt, prompt_id, sendCalls, streams, toolCallRequests, messages,
                           controllers>>
       ELSE /\ currentPrompt' = prompt
            /\ sendMessageStream(prompt, messages)
    /\ UNCHANGED <<caller, hasClient, prompt>>
    /\ UNCHANGED execVars

\* processStream: one iteration of for await
StreamEvent ==
    /\ pc = "processStream"
    /\ TotalEvents(streams) < MaxEvents
    /\ \E event \in ProducerEvents :
        /\ event.type = "tool_call_request" => Len(sendCalls) < MaxTurns
        /\ streams' = [streams EXCEPT ![Len(streams)] = Append(@, event)]
        /\ toolCallRequests' = collect(toolCallRequests, event)
        /\ messages' = messages \o classify(event, prompt_id)
    /\ UNCHANGED <<caller, hasClient, prompt, pc, currentPrompt, prompt_id, sendCalls, controllers>>
    /\ UNCHANGED execVars

\* processStream: the stream's iteration throws; streamQuery catches it
StreamThrow ==
    /\ pc = "processStream"
    /\ catch(messages, ProducerError)
    /\ UNCHANGED <<caller, hasClient, prompt, currentPrompt, prompt_id, sendCalls, streams,
                   toolCallRequests, controllers>>
    /\ UNCHANGED execVars

\* mutant of StreamEnd: the loop breaks after every turn
StreamEnd_AlwaysBreak ==
    /\ pc = "processStream"
    /\ pc' = "break"
    /\ UNCHANGED <<caller, requests, results, inflight, attempts, outcomes>>
    /\ UNCHANGED loopVars

\* mutant of StreamEnd: the length check is missing, execute is always called
StreamEnd_NoBreak ==
    /\ pc = "processStream"
    /\ pc' = "execute"
    /\ requests' = toolCallRequests
    /\ results' = <<>>
    /\ UNCHANGED <<caller, inflight, attempts, outcomes>>
    /\ UNCHANGED loopVars

\* mutant of StreamEnd: a max_session_turns event in the stream ends the loop
StreamEnd_StopOnMaxTurns ==
    /\ pc = "processStream"
    /\ IF \/ Len(toolCallRequests) = 0
          \/ \E i \in 1..Len(streams[Len(streams)]) :
                streams[Len(streams)][i].type = "max_session_turns"
       THEN /\ pc' = "break"
            /\ UNCHANGED <<requests, results>>
       ELSE /\ pc' = "execute"
            /\ requests' = toolCallRequests
            /\ results' = <<>>
    /\ UNCHANGED <<caller, inflight, attempts, outcomes>>
    /\ UNCHANGED loopVars

\* mutant of StreamEnd: an error, loop_detected, user_cancelled or finished
\* event in the stream ends the loop
StreamEnd_StopOnSignal ==
    /\ pc = "processStream"
    /\ IF \/ Len(toolCallRequests) = 0
          \/ \E i \in 1..Len(streams[Len(streams)]) :
                streams[Len(streams)][i].type
                    \in {"error", "loop_detected", "user_cancelled", "finished"}
       THEN /\ pc' = "break"
            /\ UNCHANGED <<requests, results>>
       ELSE /\ pc' = "execute"
            /\ requests' = toolCallRequests
            /\ results' = <<>>
    /\ UNCHANGED <<caller, inflight, attempts, outcomes>>
    /\ UNCHANGED loopVars

\* processStream returns; streamQuery breaks or calls execute
StreamEnd ==
    /\ pc = "processStream"
    /\ IF Len(toolCallRequests) = 0
       THEN /\ pc' = "break"
            /\ UNCHANGED <<requests, results>>
       ELSE /\ pc' = "execute"
            /\ requests' = toolCallRequests
            /\ results' = <<>>
    /\ UNCHANGED <<caller, inflight, attempts, outcomes>>
    /\ UNCHANGED loopVars

\* the provider behaviours explored for one request
ProviderOutcomes(request) ==
    IF caller = "streamQuery" THEN LoopOutcomes(request) ELSE AllOutcomes(request)

\* mutant of NextRequest: the catch block leaves the for loop
NextRequest_StopOnFailure ==
    IF /\ inflight = {}
       /\ Len(results) < Len(requests)
       /\ \A k \in 1..Len(outcomes) : ~outcomes[k].failed
    THEN {Len(results) + 1} ELSE {}

\* mutant of NextRequest: the helpers are started without awaiting one another
NextRequest_Parallel ==
    {i \in 1..Len(requests) :
        \A k \in 1..Len(attempts) :
            attempts[k].turn = Len(sendCalls) => attempts[k].index # i}

\* execute: the for loop takes the next request once nothing is awaited
NextRequest == IF inflight = {} /\ Len(results) < Len(requests) THEN {Len(results) + 1} ELSE {}

\* the helper reaches invocation.execute(new AbortController().signal)
TokenPassed(o) == o.kind \in {"execute_throws", "ok"}

\* the call of the tool of the i-th request of the running execute
ExecuteCall(i) == [call |-> "execute", turn |-> Len(sendCalls), index |-> i]

\* the signal of some controller was passed to the call
HasToken(ctrls, use) ==
    \E c \in 1..Len(ctrls) : \E u \in 1..Len(ctrls[c].passedTo) : ctrls[c].passedTo[u] = use

\* mutant of toolSignal: the tool is given the signal of the latest controller
toolSignal_Shared(ctrls, use) ==
    IF ctrls = <<>> THEN Append(ctrls, NewController(use))
    ELSE [ctrls EXCEPT ![Len(ctrls)].passedTo = Append(@, use)]

\* new AbortController().signal in the call of invocation.execute
toolSignal(ctrls, use) == Append(ctrls, NewController(use))

\* execute: an iteration begins, up to its await; a helper that goes on to
\* call invocation.execute makes the signal it passes
ToolStart ==
    /\ pc = "execute"
    /\ \E i \in NextRequest :
        /\ inflight' = inflight \cup {i}
        /\ attempts' = Append(attempts, [turn |-> Len(sendCalls), index |-> i,
                                         callId |-> requests[i].callId])
        /\ \E passed \in {TokenPassed(o) : o \in ProviderOutcomes(requests[i])} :
            controllers' = IF passed THEN toolSignal(controllers, ExecuteCall(i))
                           ELSE controllers
    /\ UNCHANGED <<caller, pc, requests, results, outcomes>>
    /\ UNCHANGED <<hasClient, prompt, currentPrompt, prompt_id, sendCalls, streams,
                   toolCallRequests, messages>>

\* the log without the provider outcomes: which requests were processed and
\* which of them failed
Summary(log) == [k \in 1..Len(log) |-> [index |-> log[k].index, failed |-> log[k].failed]]

\* execute: the awaited helper settles and the iteration pushes its result
ToolFinish ==
    /\ pc = "execute"
    /\ \E i \in inflight : \E o \in ProviderOutcomes(requests[i]) :
        LET r == tryDispatch(requests[i], o)
        IN  /\ TokenPassed(o) = HasToken(controllers, ExecuteCall(i))
            /\ inflight' = inflight \ {i}
            /\ outcomes' = Append(Summary(outcomes),
                                   [index |-> i, failed |-> Failed(o), outcome |-> o])
            /\ IF r.threw
               THEN /\ UNCHANGED results
                    /\ IF caller = "streamQuery"
                       THEN catch(messages, r.message)
                       ELSE pc' = "execute_threw" /\ UNCHANGED messages
               ELSE /\ results' = Append(results, ToolResult(requests[i], r.text))
                    /\ UNCHANGED <<pc, messages>>
    /\ UNCHANGED <<caller, requests, attempts>>
    /\ UNCHANGED <<hasClient, prompt, currentPrompt, prompt_id, sendCalls, streams,
                   toolCallRequests, controllers>>

\* execute: the for loop is over and results is returned
Returned == pc = "execute" /\ inflight = {} /\ NextRequest = {}

\* streamQuery after await execute: the tool_result messages, the next
\* prompt and the next turn
AfterExecute ==
    /\ caller = "streamQuery"
    /\ Returned
    /\ LET toolResults == results
           parts == toolResponseParts(toolCallRequests, toolResults)
       IN  /\ currentPrompt' = parts
           /\ sendMessageStream(parts, messages \o toolResultMessages(toolCallRequests, toolResults))
    /\ UNCHANGED <<caller, hasClient, prompt>>
    /\ UNCHANGED execVars

\* execute resolves to its direct caller
ExecuteResolve ==
    /\ caller = "test"
    /\ Returned
    /\ pc' = "executed"
    /\ UNCHANGED caller
    /\ UNCHANGED loopVars
    /\ UNCHANGED execVars

(***************************************************************************)
(* The conversation loop: streamQuery(config, prompt, callback).           *)
(***************************************************************************)
Init ==
    /\ caller = "streamQuery"
    /\ hasClient \in BOOLEAN
    /\ prompt = InitialPrompt
    /\ pc = "start"
    /\ currentPrompt = Unset
    /\ prompt_id = Unset
    /\ sendCalls = <<>>
    /\ streams = <<>>
    /\ toolCallRequests = <<>>
    /\ messages = <<>>
    /\ requests = <<>>
    /\ results = <<>>
    /\ inflight = {}
    /\ attempts = <<>>
    /\ outcomes = <<>>
    /\ controllers = <<>>

Next ==
    \/ StartQuery
    \/ StreamEvent
    \/ StreamThrow
    \/ StreamEnd
    \/ ToolStart
    \/ ToolFinish
    \/ AfterExecute

Spec == Init /\ [][Next]_vars

(***************************************************************************)
(* streamQuery run to its end: every stream ends or fails, every tool      *)
(* invocation completes, every continuation of an await is run.  The       *)
(* producer yields the events that matter for the loop's control flow:     *)
(* text, the max_session_turns marker and tool call requests.              *)
(***************************************************************************)
LiveEvents ==
    {e \in ProducerEvents :
        \/ e.type \in {"content", "max_session_turns"}
        \/ e.type = "tool_call_request" /\ e.value.callId = "123"}

\* processStream: one iteration of for await
LiveStreamEvent ==
    /\ pc = "processStream"
    /\ TotalEvents(streams) < MaxEvents
    /\ \E event \in LiveEvents :
        /\ event.type = "tool_call_request" => Len(sendCalls) < MaxTurns
        /\ streams' = [streams EXCEPT ![Len(streams)] = Append(@, event)]
        /\ toolCallRequests' = collect(toolCallRequests, event)
        /\ messages' = messages \o classify(event, prompt_id)
    /\ UNCHANGED <<caller, hasClient, prompt, pc, currentPrompt, prompt_id, sendCalls, controllers>>
    /\ UNCHANGED execVars

LiveNext ==
    \/ StartQuery
    \/ LiveStreamEvent
    \/ StreamThrow
    \/ StreamEnd
    \/ ToolStart
    \/ ToolFinish
    \/ AfterExecute

LiveSpec == Init /\ [][LiveNext]_vars /\ WF_vars(LiveNext)

(***************************************************************************)
(* ToolScheduler.execute(requests) called directly, as its tests do.       *)
(***************************************************************************)
RECURSIVE SeqsUpTo(_, _)
SeqsUpTo(S, n) ==
    IF n = 0 THEN {<<>>}
    ELSE LET shorter == SeqsUpTo(S, n - 1)
         IN  shorter \cup {Append(q, x) : q \in shorter, x \in S}

SchedInit ==
    /\ caller = "test"
    /\ hasClient = TRUE
    /\ prompt = InitialPrompt
    /\ pc = "execute"
    /\ currentPrompt = Unset
    /\ prompt_id = Unset
    /\ sendCalls = <<>>
    /\ streams = <<>>
    /\ toolCallRequests = <<>>
    /\ messages = <<>>
    /\ requests \in SeqsUpTo(AllRequests, MaxRequests)
    /\ results = <<>>
    /\ inflight = {}
    /\ attempts = <<>>
    /\ outcomes = <<>>
    /\ controllers = <<>>

SchedNext ==
    \/ ToolStart
    \/ ToolFinish
    \/ ExecuteResolve

SchedSpec == SchedInit /\ [][SchedNext]_vars

(***************************************************************************)
(* Properties of ToolScheduler.execute, checked under SchedSpec.           *)
(***************************************************************************)

\* C1: for every list of N requests and whatever tools fail, execute does
\* not raise and returns exactly N results, the i-th carrying the callId of
\* the i-th request.
C1_OneResultPerRequest ==
    /\ pc # "execute_threw"
    /\ Len(results) <= Len(requests)
    /\ \A i \in 1..Len(results) : results[i].callId = requests[i].callId
    /\ pc = "executed" => Len(results) = Len(requests)

\* two requests with different callIds, one of them failing, have been executed
C1_Witness ==
    /\ pc = "executed"
    /\ Len(requests) = 2
    /\ requests[1].callId # requests[2].callId
    /\ \E k \in 1..Len(outcomes) : outcomes[k].failed

\* C7: when the tool of request i fails, the failure becomes the result of
\* request i, every later request is still attempted and gets its result,
\* and nothing propagates out of execute.
C7_FailureDoesNotAbort ==
    /\ pc # "execute_threw"
    /\ pc = "execute" => ENABLED SchedNext
    /\ \A k \in 1..Len(outcomes) :
        outcomes[k].failed =>
            /\ Len(results) >= outcomes[k].index
            /\ pc = "executed" =>
                \A j \in (outcomes[k].index + 1)..Len(requests) :
                    /\ \E a \in 1..Len(attempts) : attempts[a].index = j
                    /\ Len(results) >= j
                    /\ results[j].callId = requests[j].callId

\* the first of two requests failed and the second one succeeded afterwards
C7_Witness ==
    /\ pc = "executed"
    /\ Len(requests) = 2
    /\ Len(outcomes) = 2
    /\ outcomes[1].index = 1 /\ outcomes[1].failed
    /\ outcomes[2].index = 2 /\ ~outcomes[2].failed
    /\ Len(results) = 2

\* C8: requests are begun in input order, one at a time: request i+1 is
\* begun only when the result of request i has been produced.
C8_StrictlySequential ==
    /\ Cardinality(inflight) <= 1
    /\ \A k \in 1..Len(attempts) : attempts[k].index = k
    /\ Len(outcomes) <= Len(attempts)
    /\ Len(attempts) <= Len(outcomes) + 1
    /\ \A i \in inflight : i = Len(attempts) /\ Len(results) = i - 1

\* the second request is in flight after the first one's result was produced
C8_Witness ==
    /\ pc = "execute"
    /\ inflight = {2}
    /\ Len(results) = 1

(***************************************************************************)
(* Properties of the conversation loop, checked under Spec.                *)
(***************************************************************************)
Last(seq) == seq[Len(seq)]

IsRequestEvent(event) == event.type = "tool_call_request"

NoRequestEvent(stream) == \A i \in 1..Len(stream) : ~IsRequestEvent(stream[i])

NumOfType(msgs, type) == Cardinality({i \in 1..Len(msgs) : msgs[i].type = type})

\* the message streamQuery's catch block hands to the callback
CaughtMessage == [type |-> "error", error |-> <<ProducerError>>]

\* the loop has been left
LoopExited == pc \in {"break", "catch"}

\* the messages one stream is classified into, for the turn id pid
RECURSIVE Classified(_, _)
Classified(stream, pid) ==
    IF stream = <<>> THEN <<>>
    ELSE classify(Head(stream), pid) \o Classified(Tail(stream), pid)

\* every tool_result message pairs a result with the request of the same
\* callId, and that request's tool_call_request message came before it
C2_RequestPrecedesResult ==
    \A i \in 1..Len(messages) :
        messages[i].type = "tool_result" =>
            /\ messages[i].request.callId = messages[i].result.callId
            /\ \E j \in 1..(i - 1) :
                /\ messages[j].type = "tool_call_request"
                /\ messages[j].request = messages[i].request

\* a first stream of tool_call_request, finished gives the messages
\* tool_call_request, finished, tool_result
C2_Example ==
    (/\ Len(sendCalls) >= 2
     /\ Len(streams[1]) = 2
     /\ IsRequestEvent(streams[1][1])
     /\ streams[1][2].type = "finished")
    => /\ Len(messages) >= 3
       /\ messages[1] = [type |-> "tool_call_request", request |-> streams[1][1].value]
       /\ messages[2].type = "finished"
       /\ messages[3].type = "tool_result"
       /\ messages[3].request = streams[1][1].value

\* tool_result messages are added, after all earlier messages, only by a
\* step taken when the turn's stream is exhausted and execute has produced
\* the result of every collected request
C2_ResultsAfterScheduling ==
    NumOfType(messages', "tool_result") # NumOfType(messages, "tool_result")
    => /\ pc = "execute"
       /\ requests = toolCallRequests
       /\ inflight = {}
       /\ Len(results) = Len(requests)
       /\ Len(messages') >= Len(messages)
       /\ SubSeq(messages', 1, Len(messages)) = messages

\* C2: every tool_result message is preceded by the tool_call_request
\* message of the same callId; the tool_result messages of a turn are
\* emitted only once the turn's stream is exhausted and execute has
\* returned; the stream tool_call_request, finished with one result gives
\* tool_call_request, finished, tool_result.
C2_ToolResultAfterRequest ==
    /\ [](C2_RequestPrecedesResult /\ C2_Example)
    /\ [][C2_ResultsAfterScheduling]_vars

\* the example has run: tool_call_request, finished, then the tool_result
C2_Witness ==
    /\ Len(streams) >= 1
    /\ Len(streams[1]) = 2
    /\ IsRequestEvent(streams[1][1])
    /\ streams[1][2].type = "finished"
    /\ Len(messages) >= 3
    /\ messages[3].type = "tool_result"

\* C3 as stated: the loop terminates if and only if a turn's collected
\* list is empty.
C3_Original == LoopExited => (pc = "break" /\ Len(toolCallRequests) = 0)

C3_State ==
    /\ pc = "break" => /\ Len(toolCallRequests) = 0
                       /\ Len(streams) = Len(sendCalls)
                       /\ NoRequestEvent(Last(streams))
    /\ pc = "catch" => Last(messages) = CaughtMessage
    /\ LoopExited => ~ENABLED Next
    /\ pc = "processStream" => ENABLED StreamEnd
    /\ pc = "execute" => /\ Len(toolCallRequests) > 0
                         /\ ENABLED (ToolStart \/ ToolFinish \/ AfterExecute)

C3_Step ==
    /\ (pc = "processStream" /\ pc' \notin {"processStream", "catch"})
        => pc' = (IF Len(toolCallRequests) = 0 THEN "break" ELSE "execute")
    /\ (pc = "execute" /\ pc' # "execute")
        => /\ Len(sendCalls') = Len(sendCalls) + 1
           /\ Last(sendCalls') = currentPrompt'
           /\ Len(currentPrompt') = Len(toolCallRequests)
           /\ \A i \in 1..Len(currentPrompt') :
                currentPrompt'[i].functionResponse.response.content = results[i].result

\* C3 (amended): the loop is left only when a turn's collected list is
\* empty or when a loop-level failure is caught; a turn whose stream ends
\* with an empty list always leaves the loop, and a turn whose list is
\* non-empty always goes on to execute and then to a further
\* sendMessageStream call with a newly synthesized input.
C3_TerminatesOnEmptyOrFailure == []C3_State /\ [][C3_Step]_vars

\* a turn with requests was followed by a second turn without, and the loop ended
C3_Witness ==
    /\ pc = "break"
    /\ Len(sendCalls) = 2
    /\ Len(streams) = 2
    /\ ~NoRequestEvent(streams[1])

\* C4 as stated: streamQuery never raises, for every config.
C4_Original == pc # "throw"

\* C4 (amended): for every config that has a client, streamQuery never
\* raises: it ends by the break or by reporting the failure as an error
\* message and leaving; it raises only before the loop and before any
\* message or producer call, when the config has no client.
C4_NeverRaisesWithClient ==
    /\ hasClient => pc # "throw"
    /\ pc = "throw" => (~hasClient /\ messages = <<>> /\ sendCalls = <<>>)
    /\ pc = "catch" => Last(messages) = CaughtMessage
    /\ pc \in {"break", "catch", "throw"} => ~ENABLED Next

\* a stream failed after yielding an event and the failure was caught
C4_Witness ==
    /\ hasClient
    /\ pc = "catch"
    /\ Len(streams) >= 1
    /\ Len(Last(streams)) >= 1
    /\ Len(streams) = Len(sendCalls)

\* C5: a loop-level failure is reported by exactly one error message, which
\* is the last message; no turn is started and nothing is emitted after
\* it; the loop adds no finished message of its own.
C5_FailureReportedOnce ==
    /\ NumOfType(messages, "finished")
         = Cardinality({<<t, i>> \in (1..Len(streams)) \X (1..MaxEvents + 1) :
                            i <= Len(streams[t]) /\ streams[t][i].type = "finished"})
    /\ Cardinality({i \in 1..Len(messages) : messages[i] = CaughtMessage})
         = (IF pc = "catch" THEN 1 ELSE 0)
    /\ pc = "catch" => (Last(messages) = CaughtMessage /\ ~ENABLED Next)

\* the sendMessageStream call of the second turn failed
C5_Witness ==
    /\ pc = "catch"
    /\ Len(sendCalls) = 2
    /\ Len(streams) = 1

\* C6: the first input sent is the caller's prompt; after a turn with
\* results r1..rn the next input is n function-response payloads in result
\* order, the i-th with content ri.result and the name of the first
\* collected request whose callId is ri.callId.
C6_NextInputFromResults ==
    /\ Len(sendCalls) >= 1 => sendCalls[1] = prompt
    /\ (Len(sendCalls) >= 2 /\ pc \in {"processStream", "break", "catch"}) =>
        LET input == Last(sendCalls)
        IN  /\ currentPrompt = input
            /\ Len(input) = Len(results)
            /\ \A i \in 1..Len(results) :
                /\ input[i].functionResponse.response.content = results[i].result
                /\ \E k \in 1..Len(requests) :
                    /\ requests[k].callId = results[i].callId
                    /\ \A h \in 1..(k - 1) : requests[h].callId # results[i].callId
                    /\ input[i].functionResponse.name = requests[k].name
                    /\ input[i].functionResponse.response.name = requests[k].name

\* two results of differently named requests were sent back as the second input
C6_Witness ==
    /\ Len(sendCalls) = 2
    /\ pc = "processStream"
    /\ Len(results) = 2
    /\ results[1].callId # results[2].callId
    /\ requests[1].name # requests[2].name

\* C9: when the first stream yields no tool_call_request, there is one
\* sendMessageStream call, no tool is attempted, the callback has received
\* exactly the messages classified from that stream, and the loop ends at
\* the end of that stream.
C9_SingleTurnWithoutRequests ==
    (Len(streams) >= 1 /\ NoRequestEvent(streams[1]) /\ pc # "catch") =>
        /\ pc \in {"processStream", "break"}
        /\ Len(sendCalls) = 1
        /\ Len(streams) = 1
        /\ attempts = <<>>
        /\ messages = Classified(streams[1], prompt_id)
        /\ pc = "processStream" => ENABLED StreamEnd
        /\ pc = "break" => ~ENABLED Next

\* a first stream of two events, none a tool_call_request, ended the loop
C9_Witness ==
    /\ pc = "break"
    /\ Len(sendCalls) = 1
    /\ Len(streams[1]) >= 2
    /\ Len(messages) >= 1

\* a first stream of one tool_call_request, one scheduler result with its
\* callId, a second stream of one content event, and the loop has ended
C10_Case ==
    /\ pc = "break"
    /\ Len(streams) = 2
    /\ Len(streams[1]) = 1
    /\ IsRequestEvent(streams[1][1])
    /\ streams[2] = <<[type |-> "content", value |-> "final answer"]>>
    /\ Len(results) = 1
    /\ results[1].callId = streams[1][1].value.callId

RequestOf(k) == requests[outcomes[k].index]
HasResult(k) == outcomes[k].index <= Len(results)
ResultOf(k) == results[outcomes[k].index]
TextOf(k) == ResultOf(k).result

\* the processed requests whose provider outcome the log holds: the latest
Detailed == IF outcomes = <<>> THEN {} ELSE {Len(outcomes)}

\* the text starts with the characters of prefix
BeginsWith(text, prefix) ==
    /\ Len(text) > 0
    /\ Len(text[1]) >= Len(prefix)
    /\ SubSeq(text[1], 1, Len(prefix)) = prefix

\* the text has the word as one of its pieces
Contains(text, word) == \E t \in 1..Len(text) : text[t] = word

\* the request's name resolves to no tool: no case of the switch, or a case
\* whose tool the registry does not have
Unregistered(k) ==
    \/ RequestOf(k).name \notin SwitchNames
    \/ outcomes[k].outcome.kind = "not_found"

\* C11: a request whose operation name is not registered gets a result, never
\* an exception; the result's text begins with [ERROR] and contains the
\* operation name, it is pushed like any other result, and execute goes on to
\* the next request
C11_UnregisteredIsErrorText ==
    \A k \in Detailed :
        Unregistered(k) =>
            /\ ~outcomes[k].failed
            /\ HasResult(k)
            /\ ResultOf(k).callId = RequestOf(k).callId
            /\ BeginsWith(TextOf(k), "[ERROR]")
            /\ Contains(TextOf(k), RequestOf(k).name)
            /\ (pc = "execute" /\ inflight = {} /\ Len(results) < Len(requests)
                    => ENABLED ToolStart)

\* an unimplemented name and a tool missing from the registry, both answered
C11_Witness ==
    /\ pc = "executed"
    /\ Len(requests) = 2 /\ Len(results) = 2 /\ Len(outcomes) = 2
    /\ requests[1].name = OtherName
    /\ results[1].result = <<"[ERROR] Tool '", OtherName, "' is not implemented.">>
    /\ requests[2].name = "read_file"
    /\ outcomes[2].outcome.kind = "not_found"
    /\ results[2].result = <<"[ERROR] ", "read_file", " tool not found.">>

\* the k-th processed request ran a command and the service returned its result
IsCommandResult(k) ==
    /\ RequestOf(k).name = "run_shell_command"
    /\ outcomes[k].outcome.kind = "executionResult"

BinaryPlaceholder == <<"[Command produced binary output, which is not shown.]">>

\* C12: the result text of a command is chosen by the first case that
\* applies, in the order error, aborted, signal, non-zero exit code, binary
\* output, trimmed output or the no-output placeholder; exit code 0 with
\* output 'hello world\n' gives 'hello world', and exit code 2 gives a text
\* starting with '[ERROR] Command exited with code 2.'
C12_ShellCasePriority ==
    \A k \in Detailed :
        IsCommandResult(k) =>
            LET o == outcomes[k].outcome
                text == TextOf(k)
                noError == o.error = "null"
                noAbort == noError /\ ~o.aborted
                noSignal == noAbort /\ o.signal = "null"
                exitZero == noSignal /\ o.exitCode = 0
                textual == exitZero /\ ~o.binary
            IN  /\ HasResult(k)
                /\ ~noError => text = <<"[ERROR] ", o.error, "\n">> \o o.output
                /\ noError /\ o.aborted =>
                        text = <<"[CANCELLED] Command was cancelled.", "\n">> \o o.output
                /\ noAbort /\ o.signal # "null" =>
                        text = <<"[ERROR] Command terminated by signal: ", o.signal, ".", "\n">>
                                    \o o.output
                /\ noSignal /\ o.exitCode # 0 =>
                        text = <<"[ERROR] Command exited with code ", ToString(o.exitCode), ".", "\n">>
                                    \o o.output
                /\ exitZero /\ o.binary => text = BinaryPlaceholder
                /\ textual /\ Trim(o.output) # <<>> => text = Trim(o.output)
                /\ textual /\ Trim(o.output) = <<>> => text = <<"(Command produced no output)">>
                /\ textual /\ o.output = <<"hello world", "\n">> => text = <<"hello world">>
                /\ noSignal /\ o.exitCode = 2 =>
                        SubSeq(text, 1, 3) = <<"[ERROR] Command exited with code ", "2", ".">>

\* a clean 'hello world\n' is reported by its trimmed output, and a command
\* with every failure sign at once by its error
C12_Witness ==
    /\ pc = "executed"
    /\ Len(outcomes) = 2 /\ Len(results) = 2
    /\ requests[1].name = "run_shell_command"
    /\ results[1].result = <<"hello world">>
    /\ IsCommandResult(2)
    /\ outcomes[2].outcome.error # "null" /\ outcomes[2].outcome.aborted
    /\ outcomes[2].outcome.signal # "null" /\ outcomes[2].outcome.exitCode = 2
    /\ outcomes[2].outcome.binary
    /\ BeginsWith(results[2].result, "[ERROR] ")
    /\ Contains(results[2].result, outcomes[2].outcome.error)

\* the text has none of the pieces of the captured output
ShowsNoOutput(text, output) == \A t \in 1..Len(output) : ~Contains(text, output[t])

\* the command ended without error, abort or signal and with exit code 0
EndedCleanly(o) ==
    o.error = "null" /\ ~o.aborted /\ o.signal = "null" /\ o.exitCode = 0

\* C13 as stated: whenever the raw output of a command is binary, the result
\* text is exactly the placeholder and shows nothing of the captured output
C13_Original ==
    \A k \in Detailed :
        IsCommandResult(k) /\ outcomes[k].outcome.binary =>
            /\ HasResult(k)
            /\ TextOf(k) = BinaryPlaceholder
            /\ ShowsNoOutput(TextOf(k), outcomes[k].outcome.output)

\* C13: when a command ended without error, abort or signal and with exit
\* code 0 and its raw output is binary, the result text is exactly the
\* placeholder and shows nothing of the captured output; with an error, an
\* abort, a signal or a non-zero exit code the text of that case, which ends
\* with the captured output, is the result even though the output is binary
C13_BinaryPlaceholderWhenClean ==
    \A k \in Detailed :
        IsCommandResult(k) /\ outcomes[k].outcome.binary =>
            LET o == outcomes[k].outcome
            IN  /\ HasResult(k)
                /\ EndedCleanly(o) =>
                        /\ TextOf(k) = BinaryPlaceholder
                        /\ ShowsNoOutput(TextOf(k), o.output)
                /\ ~EndedCleanly(o) =>
                        /\ TextOf(k) # BinaryPlaceholder
                        /\ Len(TextOf(k)) >= Len(o.output)
                        /\ SubSeq(TextOf(k), Len(TextOf(k)) - Len(o.output) + 1, Len(TextOf(k)))
                                = o.output

\* binary output after a clean end is replaced by the placeholder, binary
\* output after exit code 2 is shown after the exit code's text
C13_Witness ==
    /\ pc = "executed"
    /\ Len(outcomes) = 2 /\ Len(results) = 2
    /\ requests[1].name = "run_shell_command"
    /\ results[1].result = BinaryPlaceholder
    /\ IsCommandResult(2)
    /\ outcomes[2].outcome.binary /\ outcomes[2].outcome.exitCode = 2
    /\ outcomes[2].outcome.error = "null" /\ ~outcomes[2].outcome.aborted
    /\ outcomes[2].outcome.signal = "null"
    /\ outcomes[2].outcome.output = <<"hello world", "\n">>
    /\ Contains(results[2].result, "hello world")

(***************************************************************************)
(* processStream, event by event.                                          *)
(***************************************************************************)
\* the messages a step appended to the emitted messages
Emitted == SubSeq(messages', Len(messages) + 1, Len(messages'))

\* the step is processStream consuming one more event of the current stream
ConsumesEvent ==
    /\ pc = "processStream"
    /\ Len(streams') = Len(streams)
    /\ streams' # streams

\* the effect the classifier is said to have for one event
EffectAsStated(event, emitted, pid) ==
    IF event.type \in {"thought", "content", "tool_call_request"}
    THEN Len(emitted) = 1 /\ emitted[1].type = event.type
    ELSE IF event.type \in {"error", "loop_detected"}
    THEN Len(emitted) = 1 /\ emitted[1].type = "error"
    ELSE IF event.type = "finished"
    THEN emitted = <<[type |-> "finished", reason |-> event.value, prompt_id |-> pid]>>
    ELSE IF event.type \in {"user_cancelled", "chat_compressed"}
    THEN Len(emitted) = 1 /\ emitted[1].type = "info"
    ELSE IF event.type \in {"tool_call_confirmation", "tool_call_response", "max_session_turns"}
    THEN emitted = <<>>
    ELSE /\ Len(emitted) = 1
         /\ emitted[1].type = "error"
         /\ Contains(emitted[1].error, event.type)

\* C14 as stated: every event consumed has exactly the effect of its tag, a
\* tag outside the known set gives one error message that names the tag, and
\* only a tool_call_request event changes the collected list, by being
\* appended to it
C14_Original ==
    [][ConsumesEvent =>
        LET event == Last(Last(streams'))
        IN  /\ EffectAsStated(event, Emitted, prompt_id)
            /\ toolCallRequests' =
                    IF event.type = "tool_call_request"
                    THEN Append(toolCallRequests, event.value)
                    ELSE toolCallRequests]_vars

\* the requests of a stream's tool_call_request events, in arrival order
RequestValues(stream) ==
    LET arrived == SelectSeq(stream, IsRequestEvent)
    IN  [i \in 1..Len(arrived) |-> arrived[i].value]

\* the last n elements of a sequence
Suffix(seq, n) == SubSeq(seq, Len(seq) - n + 1, Len(seq))

\* C15: while a stream is classified and when processStream has returned,
\* the messages emitted for the stream are those of the events consumed so
\* far, in the order the events were consumed, so the message of an event is
\* emitted before the next event is consumed; the collected requests are in
\* arrival order; and the list processStream returns holds the requests of
\* every event of the stream
C15_EmissionMirrorsConsumption ==
    pc \in {"processStream", "break", "execute"} =>
        LET consumed == Last(streams)
            expected == Classified(consumed, prompt_id)
        IN  /\ Len(messages) >= Len(expected)
            /\ Suffix(messages, Len(expected)) = expected
            /\ Len(streams) = 1 => messages = expected
            /\ toolCallRequests = RequestValues(consumed)
            /\ pc = "execute" => requests = RequestValues(consumed)

\* a stream of three events with two different requests has been classified
\* and processStream has returned both, in arrival order
C15_Witness ==
    /\ pc = "execute"
    /\ Len(streams) = 1 /\ Len(streams[1]) = 3
    /\ streams[1][1].type = "tool_call_request"
    /\ streams[1][2].type = "content"
    /\ streams[1][3].type = "tool_call_request"
    /\ streams[1][1].value # streams[1][3].value
    /\ requests = <<streams[1][1].value, streams[1][3].value>>
    /\ Len(messages) = 3
    /\ messages[2].type = "content"

(***************************************************************************)
(* Termination of streamQuery.                                             *)
(***************************************************************************)
\* streamQuery has returned or thrown
Terminated == pc \in {"break", "catch", "throw"}

HasMaxSessionTurns(stream) == \E i \in 1..Len(stream) : stream[i].type = "max_session_turns"

\* C16: with finite streams and tool invocations that complete, streamQuery
\* terminates once the producer returns a stream without tool_call_request
\* events or fails; the loop itself never stops after a stream that has a
\* tool_call_request event, whatever the number of turns so far and whether
\* or not the stream has a max_session_turns event: such a turn is always
\* followed by a further call of sendMessageStream
C16_TerminatesOnlyWithoutRequests ==
    /\ <>Terminated
    /\ [](pc = "break" => NoRequestEvent(Last(streams)))
    /\ \A n \in 1..MaxTurns :
        (pc = "execute" /\ Len(sendCalls) = n) ~> (Len(sendCalls) = n + 1)

\* a first stream with a max_session_turns event and a request was followed
\* by a second turn, whose stream without requests ended the loop
C16_Witness ==
    /\ pc = "break"
    /\ Len(sendCalls) = 2 /\ Len(streams) = 2
    /\ HasMaxSessionTurns(streams[1])
    /\ ~NoRequestEvent(streams[1])
    /\ NoRequestEvent(streams[2])

(***************************************************************************)
(* Scheduling of the collected requests, turn by turn.                     *)
(***************************************************************************)
\* the positions in the log of the requests execute began in turn t
AttemptsOfTurn(t) == {a \in 1..Len(attempts) : attempts[a].turn = t}

\* C17: every request execute begins is a request collected from the
\* stream of the current turn, begun once; the requests of a turn are begun
\* in one pass over the collected list, all of them before the next call of
\* sendMessageStream and none after it; no request is begun or in progress
\* while a stream is classified; execute is called with exactly the requests
\* collected from the stream just exhausted
C17_ScheduledOnceInItsTurn ==
    /\ \A a \in 1..Len(attempts) :
        LET collected == RequestValues(streams[attempts[a].turn])
        IN  /\ attempts[a].turn \in 1..Len(streams)
            /\ attempts[a].index \in 1..Len(collected)
            /\ attempts[a].callId = collected[attempts[a].index].callId
    /\ \A a, b \in 1..Len(attempts) :
        a < b =>
            /\ attempts[a].turn <= attempts[b].turn
            /\ attempts[a].turn = attempts[b].turn => attempts[a].index < attempts[b].index
    /\ \A t \in 1..(Len(sendCalls) - 1) :
        {attempts[a].index : a \in AttemptsOfTurn(t)}
            = 1..Len(RequestValues(streams[t]))
    /\ pc = "processStream" => inflight = {} /\ AttemptsOfTurn(Len(sendCalls)) = {}
    /\ pc = "execute" => requests = RequestValues(Last(streams))

\* both requests of the first turn were executed in that turn, and the
\* second turn, a stream of one event, executed nothing
C17_Witness ==
    /\ pc = "break"
    /\ Len(sendCalls) = 2
    /\ Len(RequestValues(streams[1])) = 2
    /\ Len(streams[2]) = 1
    /\ Len(attempts) = 2
    /\ attempts[1].turn = 1 /\ attempts[1].index = 1
    /\ attempts[2].turn = 1 /\ attempts[2].index = 2

\* the step is streamQuery going on after execute has returned
AfterScheduling == pc = "execute" /\ Len(sendCalls') > Len(sendCalls)

\* the first collected request with the callId
RequestWithCallId(reqs, callId) ==
    reqs[CHOOSE j \in 1..Len(reqs) :
            /\ reqs[j].callId = callId
            /\ \A k \in 1..(j - 1) : reqs[k].callId # callId]

Normalized(content) ==
    IF content.kind = "undefined" THEN <<>>
    ELSE IF content.kind = "string" THEN content.text
    ELSE JoinWith(content.parts, "\n")

\* C19 as stated: the result text of every request whose tool invocation
\* succeeded is the content of the tool's result, normalized
C19_Original ==
    \A k \in Detailed :
        outcomes[k].outcome.kind = "ok" =>
            /\ HasResult(k)
            /\ TextOf(k) = Normalized(outcomes[k].outcome.llmContent)

\* the wording of each helper's own catch
HelperWording(name) ==
    CASE name = "read_file" -> "Error reading file"
      [] name = "write_file" -> "Error writing file"
      [] name = "replace" -> "Error replacing content"
      [] name = "read_many_files" -> "Error reading files"

\* the build or the execution of the request's tool failed
BuildOrExecutionFailed(k) ==
    outcomes[k].outcome.kind \in {"build_throws", "execute_throws", "service_throws"}

\* '[ERROR] Tool '<operation>' failed: <message>', the text of execute's catch
FailedText(k) ==
    <<"[ERROR] Tool '", RequestOf(k).name, "' failed: ", outcomes[k].outcome.message>>

\* C20 as stated: every request whose tool build or execution failed has a
\* result, and its text is the operation's 'failed' text with the
\* failure's message
C20_Original ==
    \A k \in Detailed :
        BuildOrExecutionFailed(k) => HasResult(k) /\ TextOf(k) = FailedText(k)

\* C20: every request whose tool build or execution failed has a result,
\* never an exception, and its text begins with [ERROR] and ends with the
\* failure's message: a failure of build or execute of read_file,
\* write_file, replace or read_many_files is caught by the helper and gives
\* '[ERROR] <the helper's wording>: <message>'; a failure that leaves the
\* helper, the command execution service throwing, is caught by execute and
\* gives '[ERROR] Tool '<operation>' failed: <message>'
C20_FailureIsErrorText ==
    \A k \in Detailed :
        BuildOrExecutionFailed(k) =>
            /\ HasResult(k)
            /\ pc # "execute_threw"
            /\ BeginsWith(TextOf(k), "[ERROR]")
            /\ Last(TextOf(k)) = outcomes[k].outcome.message
            /\ TextOf(k) =
                IF outcomes[k].outcome.kind = "service_throws"
                THEN FailedText(k)
                ELSE <<"[ERROR] ", HelperWording(RequestOf(k).name), ": ",
                       outcomes[k].outcome.message>>

\* a failing build of read_file and a throwing command execution service,
\* each reported in its own wording
C20_Witness ==
    /\ pc = "executed"
    /\ Len(outcomes) = 2 /\ Len(results) = 2
    /\ requests[1].name = "read_file" /\ outcomes[1].failed
    /\ results[1].result = <<"[ERROR] ", "Error reading file", ": ", ToolError>>
    /\ requests[2].name = "run_shell_command" /\ outcomes[2].outcome.kind = "service_throws"
    /\ results[2].result = <<"[ERROR] Tool '", "run_shell_command", "' failed: ", ToolError>>

(***************************************************************************)
(* Cancellation signals.                                                   *)
(***************************************************************************)
\* the controllers whose signal was passed to the call
ControllersFor(use) ==
    {c \in 1..Len(controllers) :
        \E u \in 1..Len(controllers[c].passedTo) : controllers[c].passedTo[u] = use}

SendCall(t) == [call |-> "sendMessageStream", turn |-> t]

\* the call of the tool of the k-th request begun
ToolCall(k) == [call |-> "execute", turn |-> attempts[k].turn, index |-> attempts[k].index]

\* the name of the k-th request begun by the conversation loop
NameOfAttempt(k) == RequestValues(streams[attempts[k].turn])[attempts[k].index].name

\* no controller is ever aborted and no signal is passed to two calls, and
\* every call of sendMessageStream has a signal of its own
C21_Signals ==
    /\ \A c \in 1..Len(controllers) :
        ~controllers[c].aborted /\ Len(controllers[c].passedTo) = 1
    /\ \A t \in 1..Len(sendCalls) : Cardinality(ControllersFor(SendCall(t))) = 1

\* C21 as stated: no signal is ever aborted, every turn has a signal of its
\* own, and every tool that was invoked was passed a signal of its own
C21_Original ==
    /\ C21_Signals
    /\ \A k \in Detailed :
        Invoked(outcomes[k].outcome) => Cardinality(ControllersFor(ToolCall(k))) = 1

\* the signals of the calls made so far: no signal is aborted and none is
\* shared; a command of run_shell_command and a request without a case in
\* the switch have no signal, an invocation.execute has one
C21_Passed ==
    /\ C21_Signals
    /\ \A k \in Detailed :
        LET o == outcomes[k].outcome
            passed == Cardinality(ControllersFor(ToolCall(k)))
        IN  /\ NameOfAttempt(k) = "run_shell_command" => passed = 0
            /\ NameOfAttempt(k) \notin SwitchNames => passed = 0
            /\ (NameOfAttempt(k) \in SwitchNames \ {"run_shell_command"}
                    /\ o.kind \in {"ok", "execute_throws"}) => passed = 1
    /\ \A i \in inflight :
        \A c \in ControllersFor([call |-> "execute", turn |-> Len(sendCalls), index |-> i]) :
            ~controllers[c].aborted

\* a step either makes no controller or makes one new controller, not
\* aborted and passed to one call, and leaves the earlier ones as they were
C21_Minted ==
    \/ controllers' = controllers
    \/ /\ Len(controllers') = Len(controllers) + 1
       /\ SubSeq(controllers', 1, Len(controllers)) = controllers
       /\ ~Last(controllers').aborted
       /\ Len(Last(controllers').passedTo) = 1

\* C21: no signal is ever aborted and none is shared: every call of
\* sendMessageStream and every invocation.execute of read_file, write_file,
\* replace and read_many_files is passed the signal of a controller newly
\* made for that call alone; a command of run_shell_command is executed
\* without any signal; so no tool in progress has a signal that is aborted
C21_NoToolIsInterrupted == []C21_Passed /\ [][C21_Minted]_vars

\* after a user_cancelled event a command ran without a signal and
\* read_file is in progress with the signal of its own controller
C21_Witness ==
    /\ pc = "execute"
    /\ Len(sendCalls) = 1
    /\ \E e \in 1..Len(streams[1]) : streams[1][e].type = "user_cancelled"
    /\ Len(requests) = 2
    /\ requests[1].name = "run_shell_command" /\ requests[2].name = "read_file"
    /\ Len(results) = 1 /\ inflight = {2}
    /\ Len(controllers) = 2
    /\ controllers[1].passedTo = <<SendCall(1)>>
    /\ controllers[2] = [aborted |-> FALSE,
                         passedTo |-> <<[call |-> "execute", turn |-> 1, index |-> 2]>>]

(***************************************************************************)
(* Continuation of the loop and the events of a stream.                    *)
(***************************************************************************)
\* the turns so far: the loop went on after every earlier stream, each of
\* which had a request; the requests collected are those of every event of
\* the stream, and execute was called with them and can go on to the end
C22_Turns ==
    /\ pc \in {"break", "execute"} =>
        (pc = "execute") = ~NoRequestEvent(Last(streams))
    /\ \A t \in 1..(Len(streams) - 1) : ~NoRequestEvent(streams[t])
    /\ (pc = "processStream" /\ TotalEvents(streams) < MaxEvents) => ENABLED StreamEvent
    /\ pc \in {"processStream", "break", "execute"} =>
        toolCallRequests = RequestValues(Last(streams))
    /\ pc = "execute" =>
        /\ requests = RequestValues(Last(streams))
        /\ ENABLED ToolStart \/ ENABLED ToolFinish \/ ENABLED AfterExecute
    /\ (pc = "execute" /\ Len(results) = Len(requests) /\ inflight = {}) => ENABLED AfterExecute

\* consuming an event, of whatever type, stays in the classification; when
\* processStream returns the loop goes on exactly when the stream had a
\* request; and when execute has returned sendMessageStream is called for
\* the next turn (the call itself may throw)
C22_Step ==
    /\ (pc = "processStream" /\ streams' # streams) => pc' = "processStream"
    /\ (pc = "processStream" /\ pc' \in {"break", "execute"}) =>
        /\ (pc' = "execute") = ~NoRequestEvent(Last(streams))
        /\ pc' = "execute" => requests' = RequestValues(Last(streams))
    /\ (pc = "execute" /\ pc' # "execute") =>
        /\ pc' \in {"processStream", "catch"}
        /\ Len(sendCalls') = Len(sendCalls) + 1

\* C22: when the stream of a turn has ended, the loop goes on exactly when
\* the stream had a tool_call_request event, whatever else it had: after an
\* error, loop_detected, user_cancelled or finished event the remaining
\* events are still classified and their requests collected, the collected
\* requests are executed, and a further turn is sent
C22_ContinuesIffRequested == []C22_Turns /\ [][C22_Step]_vars

\* a request that came after a finished and an error event was executed
\* and a second turn was sent
C22_Witness ==
    /\ Len(sendCalls) = 2
    /\ Len(streams[1]) = 3
    /\ streams[1][1].type = "finished"
    /\ streams[1][2].type = "error"
    /\ streams[1][3].type = "tool_call_request"
    /\ Len(attempts) = 1 /\ Len(results) = 1
    /\ NumOfType(messages, "tool_result") = 1

====
